---- MODULE Spec2Model ----
(***************************************************************************)
(* Process manager of gamehost-one (apps/desktop/src-tauri/src/lib.rs).    *)
(*                                                                         *)
(* The ProcessManager lives behind one Mutex.  A step of this model is one *)
(* critical section of that mutex (or one lock-free section of a command   *)
(* between two critical sections).  ProcessManager::stop keeps the mutex   *)
(* for the whole of its polling loop; each iteration of the loop is one    *)
(* step, and no other critical section can run while a thread is in it.    *)
(*                                                                         *)
(* An Instant is known by the class of its age: started_at by whether more *)
(* than the 8 seconds of get_status have passed since, the `start` of stop *)
(* by whether more than its 10 seconds have.  Time passing is a step of    *)
(* the environment.                                                        *)
(*                                                                         *)
(* Option<T> is a sequence of length at most one: None == <<>>,            *)
(* Some(x) == <<x>>.                                                       *)
(*                                                                         *)
(* Assumptions on the environment: Stdio::piped() always yields the three  *)
(* pipes (the two ok_or(..)? in start never fire); Child::kill ends the    *)
(* process; Mutex::lock never reports poisoning.  Commands are called      *)
(* with the names of servers that are in the registry, and the registry    *)
(* and settings files can be read and written, so that the lookups which   *)
(* precede the ownership check of a command succeed.  The work a command   *)
(* does on files after it has released the mutex for the last time does    *)
(* not touch the ProcessManager; it is one with the step before it and     *)
(* shows only as the result of the command.                                *)
(***************************************************************************)
EXTENDS Integers, Sequences, FiniteSets, TLC

\* ---- bounds of the model ----
MaxSpawns == 2
MaxWatchers == 2

Servers == {"A", "B"}
\* the threads that can be inside a command which takes the mutex more than
\* once; the commands with one critical section are called from any thread
Threads == {"t1"}
Procs == 1..MaxSpawns

None == <<>>
Some(x) == <<x>>

ServerStatus == {"STOPPED", "STARTING", "RUNNING", "ERROR"}

ErrConflict == "Another server is currently running"
ErrNotRunning == "Server is not running"
ErrJarMissing == "Server jar is missing. Recreate the server or redownload files."
ErrJavaRequired == "Java is required to run this server."
ErrJavaNotFound == "Java was not found. Install Java 17+ and try again."
ErrSpawn == "spawn error"
ErrWrite == "write error"

\* what the launch of the child can meet, in the order the code meets it
StartOutcomes == {"ok", "java_unavailable", "launch_files_missing", "spawn_not_found", "spawn_error"}

VARIABLES
    status,            \* ProcessManager.status
    child,             \* ProcessManager.child : Option<Child>, the process it handles
    stdin,             \* ProcessManager.stdin : Option<ChildStdin>
    pid,               \* ProcessManager.pid : Option<u32>
    started_at,        \* ProcessManager.started_at : None, or Some of the age class of the Instant
    active_server_id,  \* ProcessManager.active_server_id : Option<String>
    proc,              \* operating system: state of every process the manager can spawn:
                       \* "unborn", "alive", "exited_ok", "exited_fail" (ended, handle still
                       \* held), "gone" (ended and its Child dropped)
    ready,             \* per process: a "Done (" line is in its stdout pipe, not yet read
    watchers,          \* number of live exit-watcher threads
    th,                \* command threads: where each is inside a multi-step command
    stopElapsed,       \* start.elapsed() of the running ProcessManager::stop: "le_10s" or "gt_10s"
    last               \* label, argument and result of the step just taken

mgr == <<status, child, stdin, pid, started_at, active_server_id>>
vars == <<status, child, stdin, pid, started_at, active_server_id,
          proc, ready, watchers, th, stopElapsed, last>>

Idle == [pc |-> "idle", op |-> "-", sid |-> "-"]
At(pc, op, sid) == [pc |-> pc, op |-> op, sid |-> sid]

\* op: the command or thread that stepped; via: the method of the manager it
\* reached in this step; res: what the command returned, "-" while it has not
Step(op, sid, via, res) == [op |-> op, sid |-> sid, via |-> via, res |-> res]

\* ---- ProcessManager::new ----
ManagerInit ==
    /\ status = "STOPPED"
    /\ child = None
    /\ stdin = None
    /\ pid = None
    /\ started_at = None
    /\ active_server_id = None
    /\ proc = [p \in Procs |-> "unborn"]
    /\ ready = [p \in Procs |-> FALSE]
    /\ watchers = 0
    /\ th = [t \in Threads |-> Idle]
    /\ stopElapsed = "le_10s"
    /\ last = Step("init", "-", "-", "-")

\* the mutex is held across steps only by a thread inside the loop of stop
LockFree == \A t \in Threads : th[t].pc # "stop_loop"

Alive(p) == proc[p] = "alive"
Exited(p) == proc[p] \in {"exited_ok", "exited_fail"}
NextProc == Cardinality({p \in Procs : proc[p] # "unborn"}) + 1

\* (variant: the ownership check left out)
OtherActive_unchecked(sid) == FALSE

\* the ownership check every command makes before it touches the manager
OtherActive(sid) == active_server_id # None /\ active_server_id[1] # sid

\* (variant: a server that is still starting does not count as running)
is_server_running_only == status = "RUNNING"

is_server_running == status \in {"RUNNING", "STARTING"}

\* ---- ProcessManager::start ----
\* (variant: the early return tests RUNNING only)
StartIsNoop_running_only(st) == st = "RUNNING"

\* the early return of start: nothing is launched from these states
StartIsNoop(st) == st \in {"RUNNING", "STARTING"}

\* what start leaves in active_server_id when Command::spawn fails
ActiveAfterSpawnFailure(sid) == Some(sid)

StartResult(outcome) ==
    IF StartIsNoop(status) THEN "Ok"
    ELSE IF outcome = "launch_files_missing" THEN ErrJarMissing
    ELSE IF outcome = "spawn_not_found" THEN ErrJavaNotFound
    ELSE IF outcome = "spawn_error" THEN ErrSpawn
    ELSE "Ok"

start(sid, outcome) ==
    IF StartIsNoop(status) \/ outcome = "launch_files_missing"
    THEN UNCHANGED <<mgr, proc>>
    ELSE IF outcome \in {"spawn_not_found", "spawn_error"}
    THEN /\ status' = "ERROR"
         /\ started_at' = Some("recent")
         /\ active_server_id' = ActiveAfterSpawnFailure(sid)
         /\ UNCHANGED <<child, stdin, pid, proc>>
    ELSE /\ NextProc \in Procs
         /\ status' = "STARTING"
         /\ started_at' = Some("recent")
         /\ active_server_id' = Some(sid)
         /\ child' = Some(NextProc)
         /\ stdin' = Some(NextProc)
         /\ pid' = Some(NextProc)
         /\ proc' = [proc EXCEPT ![NextProc] = "alive"]

\* ---- start_server (also the tail call of restart_server) ----
StartServerResult(sid, outcome) ==
    IF OtherActive(sid) THEN ErrConflict
    ELSE IF outcome = "java_unavailable" THEN ErrJavaRequired
    ELSE StartResult(outcome)

StartServerBody(op, sid, outcome) ==
    LET res == StartServerResult(sid, outcome)
        reached == ~OtherActive(sid) /\ outcome # "java_unavailable"
    IN  /\ IF reached THEN start(sid, outcome) ELSE UNCHANGED <<mgr, proc>>
        /\ IF res = "Ok"
           THEN /\ watchers < MaxWatchers
                /\ watchers' = watchers + 1
           ELSE UNCHANGED watchers
        /\ last' = Step(op, sid, IF reached THEN "start" ELSE "-", res)

start_server(sid, outcome) ==
    /\ LockFree
    /\ StartServerBody("start_server", sid, outcome)
    /\ UNCHANGED <<ready, th, stopElapsed>>

\* ---- ProcessManager::stop ----
\* (variant: the owner of the slot is not reset)
StopClears_keeps_owner ==
    /\ child' = None
    /\ stdin' = None
    /\ pid' = None
    /\ started_at' = None
    /\ status' = "STOPPED"
    /\ UNCHANGED active_server_id

\* the part of stop after its loop
StopClears ==
    /\ child' = None
    /\ stdin' = None
    /\ pid' = None
    /\ started_at' = None
    /\ status' = "STOPPED"
    /\ active_server_id' = None

\* (variant: the early return leaves the status as it is)
StopNoChild_keeps_status ==
    /\ active_server_id' = None
    /\ UNCHANGED <<status, child, stdin, pid, started_at>>

\* the whole of stop when there is no child
StopNoChild ==
    /\ status' = "STOPPED"
    /\ active_server_id' = None
    /\ UNCHANGED <<child, stdin, pid, started_at>>

\* the loop gives up waiting and kills
StopTimedOut(elapsed) == elapsed = "gt_10s"

\* (variant: the handle is dropped without the kill)
Kill_dropped(c) == proc

\* Child::kill, after which stop drops the Child
Kill(c) == [proc EXCEPT ![c] = "gone"]

\* the Child of an ended process is dropped
Drop(c) == [proc EXCEPT ![c] = "gone"]

\* what is known of the result of a command once it is past the manager:
\* stop_server returns the Ok of stop; the other commands go on to their
\* files, where their result is decided
PastManager(op) == IF op = "stop_server" THEN "Ok" ELSE "to_files"

\* where a command goes on when its stop has returned Ok
AfterStop(t, op, sid, via) ==
    IF op = "restart_server"
    THEN /\ th' = [th EXCEPT ![t] = At("start", op, sid)]
         /\ last' = Step(op, sid, via, "-")
    ELSE /\ th' = [th EXCEPT ![t] = IF op = "restore_backup"
                                    THEN At("files_stopped", op, sid) ELSE Idle]
         /\ last' = Step(op, sid, via, PastManager(op))

\* stop is entered with the mutex held; with a child it writes "stop" and starts polling
StopEnter(t, op, sid) ==
    IF child = None
    THEN /\ StopNoChild
         /\ AfterStop(t, op, sid, "stop_no_child")
         /\ UNCHANGED stopElapsed
    ELSE /\ UNCHANGED mgr
         /\ stopElapsed' = "le_10s"
         /\ th' = [th EXCEPT ![t] = At("stop_loop", op, sid)]
         /\ last' = Step(op, sid, "stop_enter", "-")

\* one iteration of the loop of stop; the iteration that leaves the loop also
\* runs the rest of stop
StopPoll(t) ==
    /\ th[t].pc = "stop_loop"
    /\ LET c == child[1] IN
       IF Exited(c)
       THEN /\ StopClears
            /\ AfterStop(t, th[t].op, th[t].sid, "stop")
            /\ stopElapsed' = "le_10s"
            /\ proc' = Drop(c)
       ELSE IF StopTimedOut(stopElapsed)
       THEN /\ proc' = Kill(c)
            /\ StopClears
            /\ AfterStop(t, th[t].op, th[t].sid, "stop_kill")
            /\ stopElapsed' = "le_10s"
       ELSE /\ last' = Step(th[t].op, th[t].sid, "stop_wait", "-")
            /\ UNCHANGED <<mgr, proc, th, stopElapsed>>
    /\ UNCHANGED <<ready, watchers>>

stop_server(t, sid) ==
    /\ th[t].pc = "idle"
    /\ LockFree
    /\ IF OtherActive(sid)
       THEN /\ last' = Step("stop_server", sid, "-", ErrConflict)
            /\ UNCHANGED <<mgr, th, stopElapsed>>
       ELSE StopEnter(t, "stop_server", sid)
    /\ UNCHANGED <<proc, ready, watchers>>

restart_server(t, sid) ==
    /\ th[t].pc = "idle"
    /\ LockFree
    /\ IF OtherActive(sid)
       THEN /\ last' = Step("restart_server", sid, "-", ErrConflict)
            /\ UNCHANGED <<mgr, th, stopElapsed>>
       ELSE StopEnter(t, "restart_server", sid)
    /\ UNCHANGED <<proc, ready, watchers>>

\* restart_server after its block: the call of start_server
restart_start(t, outcome) ==
    /\ th[t].pc = "start"
    /\ LockFree
    /\ StartServerBody("restart_server", th[t].sid, outcome)
    /\ th' = [th EXCEPT ![t] = Idle]
    /\ UNCHANGED <<ready, stopElapsed>>

\* ---- commands that look at is_server_running before they take the mutex again ----
GuardedOps == {"delete_server", "export_world", "restore_backup", "create_backup"}

\* resolve_server_dir and is_server_running; a command that saw no running
\* server skips the block under `if running` and goes on to its files
command_begin(t, op, sid) ==
    /\ th[t].pc = "idle"
    /\ LockFree
    /\ IF is_server_running
       THEN /\ th' = [th EXCEPT ![t] = At("check", op, sid)]
            /\ last' = Step(op, sid, "-", "-")
       ELSE /\ last' = Step(op, sid, "-", PastManager(op))
            /\ th' = [th EXCEPT ![t] = IF op = "restore_backup"
                                       THEN At("files", op, sid) ELSE Idle]
    /\ UNCHANGED <<mgr, proc, ready, watchers, stopElapsed>>

\* the block under `if running`: ownership check, then stop (or, for a backup,
\* the save commands)
command_check(t) ==
    /\ th[t].pc = "check"
    /\ LockFree
    /\ LET op == th[t].op
           sid == th[t].sid
       IN  IF OtherActive(sid)
           THEN /\ th' = [th EXCEPT ![t] = Idle]
                /\ last' = Step(op, sid, "-", ErrConflict)
                /\ UNCHANGED <<mgr, stopElapsed>>
           ELSE IF op = "create_backup"
           THEN /\ th' = [th EXCEPT ![t] = Idle]
                /\ last' = Step(op, sid, "send_command", PastManager(op))
                /\ UNCHANGED <<mgr, stopElapsed>>
           ELSE StopEnter(t, op, sid)
    /\ UNCHANGED <<proc, ready, watchers>>

\* restore_backup past its block, the mutex released: with the entry of the
\* manifest found it removes the world folders of the server and extracts
\* the archive over them (pc "files_stopped": the call has been through stop)
restore_files(t, found) ==
    /\ th[t].pc \in {"files", "files_stopped"}
    /\ th' = [th EXCEPT ![t] = Idle]
    /\ last' = Step("restore_backup", th[t].sid, "files",
                    IF found THEN "Ok" ELSE "Backup not found")
    /\ UNCHANGED <<mgr, proc, ready, watchers, stopElapsed>>

\* ---- ProcessManager::send_command and send_console_command ----
\* (variant: a missing stdin is not reported)
send_command_silent(written) == IF written THEN "Ok" ELSE ErrWrite

send_command(written) ==
    IF stdin = None THEN ErrNotRunning
    ELSE IF written THEN "Ok" ELSE ErrWrite

send_console_command(sid, written) ==
    /\ LockFree
    /\ stdin # None /\ Alive(stdin[1]) => written
    /\ last' = IF OtherActive(sid)
               THEN Step("send_console_command", sid, "-", ErrNotRunning)
               ELSE Step("send_console_command", sid, "send_command", send_command(written))
    /\ UNCHANGED <<mgr, proc, ready, watchers, th, stopElapsed>>

\* ---- get_status ----
\* (variant: without the promotion after 8 seconds)
StatusSeen_no_fallback(sid, exists) ==
    IF OtherActive(sid) \/ pid = None \/ ~exists THEN status
    ELSE IF status \in {"STOPPED", "ERROR"} THEN "RUNNING"
    ELSE status

\* exists: sysinfo still lists the recorded pid
StatusSeen(sid, exists) ==
    IF OtherActive(sid) \/ pid = None \/ ~exists THEN status
    ELSE IF status \in {"STOPPED", "ERROR"} THEN "RUNNING"
    ELSE IF status = "STARTING" /\ started_at = Some("over_8s") THEN "RUNNING"
    ELSE status

get_status(sid, exists) ==
    /\ LockFree
    /\ pid # None /\ Alive(pid[1]) => exists
    /\ status' = StatusSeen(sid, exists)
    /\ last' = Step("get_status", sid,
                    IF status = "STARTING" /\ StatusSeen(sid, exists) = "RUNNING"
                    THEN "elapsed" ELSE "-",
                    IF OtherActive(sid) THEN "STOPPED" ELSE StatusSeen(sid, exists))
    /\ UNCHANGED <<child, stdin, pid, started_at, active_server_id, 
                   proc, ready, watchers, th, stopElapsed>>

\* ---- background threads ----
\* (variant: the watcher leaves the status as it is)
ExitStatusToServerStatus_kept(p) == status

\* the status an exit of the child leaves
ExitStatusToServerStatus(p) == IF proc[p] = "exited_ok" THEN "STOPPED" ELSE "ERROR"

\* (variant: the watcher forgets the pid)
WatcherClears_keeps_pid ==
    /\ child' = None
    /\ stdin' = None
    /\ active_server_id' = None
    /\ UNCHANGED pid

\* what the watcher resets when it has seen the exit
WatcherClears ==
    /\ child' = None
    /\ stdin' = None
    /\ pid' = None
    /\ active_server_id' = None

\* (variant: a watcher that finds no child reports the end once more)
exit_watcher_renotifies ==
    /\ watchers > 0
    /\ LockFree
    /\ IF child # None /\ Exited(child[1])
       THEN /\ WatcherClears
            /\ status' = ExitStatusToServerStatus(child[1])
            /\ proc' = Drop(child[1])
            /\ watchers' = watchers - 1
            /\ last' = Step("exit_watcher", "-",
                            IF proc[child[1]] = "exited_ok" THEN "server:stopped"
                            ELSE "server:error", "-")
            /\ UNCHANGED started_at
       ELSE /\ watchers' = IF child = None THEN watchers - 1 ELSE watchers
            /\ last' = Step("exit_watcher", "-",
                            IF child = None THEN "server:stopped" ELSE "-", "-")
            /\ UNCHANGED <<mgr, proc>>
    /\ UNCHANGED <<ready, th, stopElapsed>>

\* (variant: the watcher that has seen the exit ends without the resets)
exit_watcher_leaves ==
    /\ watchers > 0
    /\ LockFree
    /\ watchers' = IF child = None \/ Exited(child[1]) THEN watchers - 1 ELSE watchers
    /\ last' = Step("exit_watcher", "-", "-", "-")
    /\ UNCHANGED <<mgr, proc, ready, th, stopElapsed>>

\* one round of the loop of spawn_exit_watcher; via is the event it emits
exit_watcher ==
    /\ watchers > 0
    /\ LockFree
    /\ IF child # None /\ Exited(child[1])
       THEN /\ WatcherClears
            /\ status' = ExitStatusToServerStatus(child[1])
            /\ proc' = Drop(child[1])
            /\ watchers' = watchers - 1
            /\ last' = Step("exit_watcher", "-",
                            IF proc[child[1]] = "exited_ok" THEN "server:stopped"
                            ELSE "server:error", "-")
            /\ UNCHANGED started_at
       ELSE /\ watchers' = IF child = None THEN watchers - 1 ELSE watchers
            /\ last' = Step("exit_watcher", "-", "-", "-")
            /\ UNCHANGED <<mgr, proc>>
    /\ UNCHANGED <<ready, th, stopElapsed>>

\* (variant: the marker counts on either stream and in any status)
spawn_output_thread_any(p, label) ==
    /\ IF label = "stdout"
       THEN ready[p] /\ ready' = [ready EXCEPT ![p] = FALSE]
       ELSE proc[p] # "unborn" /\ UNCHANGED ready
    /\ LockFree
    /\ status' = "RUNNING"
    /\ last' = Step(label, "-", "server:ready", "-")
    /\ UNCHANGED <<child, stdin, pid, started_at, active_server_id,
                   proc, watchers, th, stopElapsed>>

\* spawn_output_thread on the stream `label` of process p, reaching a line
\* with the ready marker; via is the event it emits
spawn_output_thread(p, label) ==
    /\ IF label = "stdout"
       THEN ready[p] /\ ready' = [ready EXCEPT ![p] = FALSE]
       ELSE proc[p] # "unborn" /\ UNCHANGED ready
    /\ label = "stdout" => LockFree
    /\ status' = IF label = "stdout" /\ status = "STARTING" THEN "RUNNING" ELSE status
    /\ last' = Step(label, "-",
                    IF label = "stdout" /\ status = "STARTING" THEN "server:ready" ELSE "-",
                    "-")
    /\ UNCHANGED <<child, stdin, pid, started_at, active_server_id,
                   proc, watchers, th, stopElapsed>>

\* ---- the environment ----
\* the server process prints its "Done (" line
proc_ready(p) ==
    /\ Alive(p)
    /\ ~ready[p]
    /\ ready' = [ready EXCEPT ![p] = TRUE]
    /\ last' = Step("env", "-", "-", "-")
    /\ UNCHANGED <<mgr, proc, watchers, th, stopElapsed>>

\* the server process ends by itself (after a "stop" line, or by a crash)
proc_exit(p, ok) ==
    /\ Alive(p)
    /\ proc' = [proc EXCEPT ![p] = IF ok THEN "exited_ok" ELSE "exited_fail"]
    /\ last' = Step("env", "-", "-", "-")
    /\ UNCHANGED <<mgr, ready, watchers, th, stopElapsed>>

\* more than 8 seconds have passed since started_at
time_passes ==
    /\ started_at = Some("recent")
    /\ started_at' = Some("over_8s")
    /\ last' = Step("env", "-", "-", "-")
    /\ UNCHANGED <<status, child, stdin, pid, active_server_id, 
                   proc, ready, watchers, th, stopElapsed>>

\* more than 10 seconds have passed since stop took its `start`
stop_time_passes ==
    /\ \E t \in Threads : th[t].pc = "stop_loop"
    /\ stopElapsed = "le_10s"
    /\ stopElapsed' = "gt_10s"
    /\ last' = Step("env", "-", "-", "-")
    /\ UNCHANGED <<mgr, proc, ready, watchers, th>>

\* ======================= backups =======================
\* perform_backup, restore_backup and delete_backup on the files of one
\* server.  The server directory holds the folder "world" and a secondary
\* folder "world_nether" ("world_the_end" goes through the same code with a
\* flag of its own); a folder is missing or holds one file, whose content is
\* "x" (1 byte) or, in "world", "yy" (2 bytes).  An archive holds,
\* per folder, the file it was given ("-" for none).  The three commands do not take a
\* lock on the files; here every call runs to its end before the next one
\* starts.  What the ProcessManager answers to a call (nothing runs, this
\* server runs, another server runs) is an input of the call.
Folders == {"world", "world_nether"}
Contents == {"x", "yy"}
FolderStates(f) == IF f = "world" THEN {"missing", "x", "yy"} ELSE {"missing", "x"}
Size(c) == IF c = "x" THEN 1 ELSE IF c = "yy" THEN 2 ELSE 0

\* the seconds of Utc::now() a backup id is formatted from
Times == {1, 2}
\* how many times perform_backup is called
MaxBackups == 2

\* a file in the backups directory: none, one that is not a zip archive, or
\* an archive with the file it holds per folder
NoZip == [kind |-> "none", files |-> [f \in Folders |-> "-"]]
BrokenZip == [kind |-> "broken", files |-> [f \in Folders |-> "-"]]
Zip(a) == [kind |-> "zip", files |-> a]

VARIABLES
    world,           \* the world folders in the server directory
    archives,        \* <backups root>/<server>/<id>.zip, for every id
    manifest,        \* manifest.json: Vec<BackupEntry>
    last_backup_at,  \* ServerMeta.last_backup_at
    clock,           \* Utc::now(), in seconds
    backups,         \* the calls of perform_backup so far
    taken,           \* history: the first backup call that succeeded: its id and the
                     \* files of the folders it was asked to include ("?" for a folder
                     \* it was not asked to include)
    bk               \* the backup command just run: op, id asked for and result

bvars == <<world, archives, manifest, last_backup_at, clock, backups, taken, bk>>

BackupEntry(id, size_bytes) == [id |-> id, size_bytes |-> size_bytes, path |-> id]

BackupInit ==
    /\ world \in {w \in [Folders -> {"missing"} \cup Contents] :
                    \A f \in Folders : w[f] \in FolderStates(f)}
    /\ archives = [i \in Times |-> NoZip]
    /\ manifest = <<>>
    /\ last_backup_at = None
    /\ clock = 1
    /\ backups = 0
    /\ taken = None
    /\ bk = [op |-> "init", id |-> 0, res |-> "-", sent |-> <<>>, written |-> TRUE]

\* collect_world_paths: the requested folders that exist
collect_world_paths(include_nether) ==
    {f \in Folders : (f = "world" \/ include_nether) /\ world[f] # "missing"}

\* the files zip_world_to_path writes: one entry per file under the roots
ZipOf(roots) ==
    [f \in Folders |-> IF f \in roots /\ world[f] \in Contents THEN world[f] ELSE "-"]

\* total_bytes of zip_world_to_path: the lengths of the files of the folders S
RECURSIVE SumSizes(_, _)
SumSizes(S, a) ==
    IF S = {} THEN 0
    ELSE LET f == CHOOSE g \in S : TRUE
         IN  Size(a[f]) + SumSizes(S \ {f}, a)

\* what zip_world_to_path returns and what it leaves at the destination
ZipResult(roots, outcome) ==
    IF roots = {} THEN "World folder not found"
    ELSE IF outcome \in {"walk_fails", "write_fails"} THEN "io error"
    ELSE "Ok"

ZipLeaves(id, roots, outcome) ==
    IF roots = {} \/ outcome = "walk_fails" THEN archives
    ELSE IF outcome = "write_fails" THEN [archives EXCEPT ![id] = BrokenZip]
    ELSE [archives EXCEPT ![id] = Zip(ZipOf(roots))]

\* (variant: the entry is written before the archive is made)
ManifestAfterFailure_written(id) == Append(manifest, BackupEntry(id, 0))

\* the manifest a failed backup leaves
ManifestAfterFailure(id) == manifest

\* history: what a backup taken now has to bring back
Taken(id, include_nether) ==
    [id |-> id,
     files |-> [f \in Folders |-> IF f = "world" \/ include_nether
                                  THEN (IF world[f] \in Contents THEN world[f] ELSE "-")
                                  ELSE "?"]]

\* view: what is_server_running and the owner check see; sent: the commands
\* handed to send_command, whose results are dropped (outcome "send_fails":
\* they do not reach the process)
perform_backup(include_nether, view, outcome) ==
    LET id == clock
        roots == collect_world_paths(include_nether)
        zipped == ZipResult(roots, outcome)
        res == IF view = "running_other" THEN ErrConflict
               ELSE IF zipped # "Ok" THEN zipped
               ELSE IF outcome \in {"manifest_load_fails", "manifest_save_fails"} THEN "io error"
               ELSE "Ok"
    IN  /\ backups < MaxBackups
        /\ backups' = backups + 1
        /\ archives' = IF view = "running_other" THEN archives
                       ELSE ZipLeaves(id, roots, outcome)
        /\ IF res = "Ok"
           THEN /\ manifest' = Append(manifest, BackupEntry(id, SumSizes(roots, world)))
                /\ last_backup_at' = Some(clock)
                /\ taken' = IF taken = None THEN Some(Taken(id, include_nether)) ELSE taken
           ELSE /\ manifest' = ManifestAfterFailure(id)
                /\ UNCHANGED <<last_backup_at, taken>>
        /\ bk' = [op |-> "create_backup", id |-> 0, res |-> res,
                  sent |-> IF view # "running_own" THEN <<>>
                           ELSE <<"say Creating world backup...", "save-off", "save-all">>
                                \o (IF zipped = "Ok" THEN <<"save-on">> ELSE <<>>),
                  written |-> outcome # "send_fails"]
        /\ UNCHANGED <<world, clock>>

\* manifest.iter().find(..): the first entry with the id, None if there is none
FindEntry(id) ==
    LET hits == {k \in 1..Len(manifest) : manifest[k].id = id}
    IN  IF hits = {} THEN None
        ELSE Some(manifest[CHOOSE k \in hits : \A j \in hits : k <= j])

\* (variant: the folders are removed before the archive is opened)
restore_backup_removes_first(id, view, outcome) ==
    LET entry == FindEntry(id)
        zip == IF entry = None THEN NoZip ELSE archives[entry[1].path]
        res == IF view = "running_other" THEN ErrConflict
               ELSE IF entry = None THEN "Backup not found"
               ELSE IF zip.kind # "zip" THEN "io error"
               ELSE IF outcome = "extract_fails" THEN "io error"
               ELSE "Ok"
    IN  /\ world' = IF res = "Ok"
                    THEN [f \in Folders |-> IF zip.files[f] \in Contents
                                             THEN zip.files[f] ELSE "missing"]
                    ELSE IF res = "io error"
                    THEN [f \in Folders |-> "missing"]
                    ELSE world
        /\ bk' = [op |-> "restore_backup", id |-> id, res |-> res, sent |-> <<>>, written |-> TRUE]
        /\ UNCHANGED <<archives, manifest, last_backup_at, clock, backups, taken>>

\* restore_backup: the folders are removed once the archive is open, then
\* every entry is written
restore_backup(id, view, outcome) ==
    LET entry == FindEntry(id)
        zip == IF entry = None THEN NoZip ELSE archives[entry[1].path]
        res == IF view = "running_other" THEN ErrConflict
               ELSE IF entry = None THEN "Backup not found"
               ELSE IF zip.kind # "zip" THEN "io error"
               ELSE IF outcome = "extract_fails" THEN "io error"
               ELSE "Ok"
    IN  /\ world' = IF res = "Ok"
                    THEN [f \in Folders |-> IF zip.files[f] \in Contents
                                             THEN zip.files[f] ELSE "missing"]
                    ELSE IF res = "io error" /\ zip.kind = "zip"
                    THEN [f \in Folders |-> "missing"]
                    ELSE world
        /\ bk' = [op |-> "restore_backup", id |-> id, res |-> res, sent |-> <<>>, written |-> TRUE]
        /\ UNCHANGED <<archives, manifest, last_backup_at, clock, backups, taken>>

RECURSIVE Retain(_, _)
Retain(s, id) ==
    IF s = <<>> THEN <<>>
    ELSE IF Head(s).id # id THEN <<Head(s)>> \o Retain(Tail(s), id)
    ELSE Retain(Tail(s), id)

delete_backup(id) ==
    LET entry == FindEntry(id)
    IN  /\ archives' = IF entry = None THEN archives
                       ELSE [archives EXCEPT ![entry[1].path] = NoZip]
        /\ manifest' = Retain(manifest, id)
        /\ bk' = [op |-> "delete_backup", id |-> 0, res |-> "Ok", sent |-> <<>>, written |-> TRUE]
        /\ UNCHANGED <<world, last_backup_at, clock, backups, taken>>

\* the server, or the user, writes to the world folders
world_changes(f, s) ==
    /\ world[f] # s
    /\ world' = [world EXCEPT ![f] = s]
    /\ bk' = [op |-> "env", id |-> 0, res |-> "-", sent |-> <<>>, written |-> TRUE]
    /\ UNCHANGED <<archives, manifest, last_backup_at, clock, backups, taken>>

\* the clock reaches the next second
clock_ticks ==
    /\ clock + 1 \in Times
    /\ clock' = clock + 1
    /\ bk' = [op |-> "env", id |-> 0, res |-> "-", sent |-> <<>>, written |-> TRUE]
    /\ UNCHANGED <<world, archives, manifest, last_backup_at, backups, taken>>

\* ======================= extraction of zip archives =======================
\* The three loops that write the entries of a zip archive under a root:
\* safe_extract_zip (world import), extract_java_zip (runtime) and the loop
\* of restore_backup.  The name of an entry is the sequence of its path
\* components; "/" as first component makes it absolute, ".." goes one
\* directory up.  Only file entries are kept.
Names == {<<"world", "f">>, <<"world", "..", "f">>, <<"..", "f">>,
          <<"world", "..", "..", "f">>, <<"/", "f">>}

\* the entries of an archive
MaxEntries == 2

RECURSIVE SeqsUpTo(_, _)
SeqsUpTo(S, n) ==
    IF n = 0 THEN {<<>>}
    ELSE LET shorter == SeqsUpTo(S, n - 1)
         IN  shorter \cup {Append(s, x) : s \in {q \in shorter : Len(q) = n - 1}, x \in S}

VARIABLES
    archive,    \* the ZipArchive that was opened: the names of its entries
    extractor,  \* the function whose loop runs
    index,      \* the loop variable
    created     \* the files created so far: where they are

xvars == <<archive, extractor, index, created>>

ExtractInit ==
    /\ archive \in SeqsUpTo(Names, MaxEntries)
    /\ extractor \in {"safe_extract_zip", "extract_java_zip", "restore_backup"}
    /\ index = 1
    /\ created = {}

\* the depth below the root after each component; -1 once the path has left it
RECURSIVE Depth(_, _)
Depth(name, d) ==
    IF name = <<>> THEN d
    ELSE IF Head(name) = "/" THEN -1
    ELSE IF Head(name) = ".."
         THEN (IF d = 0 THEN -1 ELSE Depth(Tail(name), d - 1))
    ELSE Depth(Tail(name), d + 1)

\* ZipFile::enclosed_name: None for an absolute name and for a name that
\* climbs above its start
enclosed_name(name) == IF Depth(name, 0) < 0 THEN None ELSE Some(name)

\* root.join(name), resolved: the directories left below the root, or the
\* place outside of it
RECURSIVE Resolve(_, _)
Resolve(name, at) ==
    IF name = <<>> THEN at
    ELSE IF at.out THEN [out |-> TRUE, path |-> at.path \o name]
    ELSE IF Head(name) = "/" THEN [out |-> TRUE, path |-> name]
    ELSE IF Head(name) = ".."
         THEN (IF at.path = <<>> THEN [out |-> TRUE, path |-> name]
               ELSE Resolve(Tail(name), [out |-> FALSE,
                                         path |-> SubSeq(at.path, 1, Len(at.path) - 1)]))
    ELSE Resolve(Tail(name), [out |-> FALSE, path |-> Append(at.path, Head(name))])

join(name) == Resolve(name, [out |-> FALSE, path |-> <<>>])

\* the name an extractor joins to its root, None if it skips the entry
OutName(who, name) ==
    IF who = "restore_backup" THEN Some(name) ELSE enclosed_name(name)

\* one iteration of the loop over the entries
extract_entry ==
    /\ index <= Len(archive)
    /\ LET name == OutName(extractor, archive[index])
       IN  created' = IF name = None THEN created ELSE created \cup {join(name[1])}
    /\ index' = index + 1
    /\ UNCHANGED <<archive, extractor>>

\* ======================= downloads =======================
\* download_with_sha256, download_with_sha256_progress and
\* download_with_hashes.  A body is a sequence of bytes; the progress variant
\* reads it one byte at a read.  A digest is known by its algorithm and the
\* bytes it was computed over (no two bodies share a digest), and a hex
\* string of it also by the case of its letters.
MaxBytes == 2

\* the file the expected digest was published for
Published == <<0, 1>>

Hex(alg, bytes, case) == [alg |-> alg, of |-> bytes, case |-> case]

\* hex::encode(hasher.finalize()): lower-case letters
hex_encode(alg, bytes) == Hex(alg, bytes, "lower")

\* str::to_lowercase on a hex string
to_lowercase(h) == [h EXCEPT !.case = "lower"]

VARIABLES
    dl,           \* the call: function, url, expected digests, and what the network gives
    sent,         \* a request has been sent
    destination,  \* the destination file: None, or Some of its bytes
    dres          \* the result of the call, "-" before it

dvars == <<dl, sent, destination, dres>>

\* the expected digest a caller passes: none, or the published one in some case
Expected(alg) ==
    {None} \cup {Some(Hex(alg, Published, c)) : c \in {"lower", "upper", "mixed"}}

DownloadInit ==
    /\ dl \in [fn : {"download_with_sha256", "download_with_sha256_progress",
                     "download_with_hashes"},
               url : {"https://host/file", "http://host/file", "HTTPS://host/file"},
               expected_sha256 : Expected("sha256"), expected_sha1 : Expected("sha1"),
               transfer : {"ok", "send_fails", "status_not_success", "read_fails"},
               body : SeqsUpTo({0, 1}, MaxBytes)]
    /\ dl.fn # "download_with_hashes" => (dl.expected_sha256 # None /\ dl.expected_sha1 = None)
    /\ sent = FALSE
    /\ destination = None
    /\ dres = "-"

\* (variant: every url is let through)
ensure_https_any(url) == TRUE

\* ensure_https: url.starts_with("https://")
ensure_https(url) == url \in {"https://host/file"}

\* the comparison of the computed digest with the expected one
DigestMatches(actual, expected) == to_lowercase(actual) = to_lowercase(expected)

\* the digest download_with_hashes verifies against: SHA-256 if given, else SHA-1
HashChoice(d) ==
    IF d.expected_sha256 # None THEN Some(d.expected_sha256[1])
    ELSE IF d.fn = "download_with_hashes" /\ d.expected_sha1 # None
    THEN Some(d.expected_sha1[1])
    ELSE None

\* the result of a call
DownloadResult(d) ==
    IF ~ensure_https(d.url) THEN "Only HTTPS downloads are allowed"
    ELSE IF d.transfer = "send_fails" THEN "network error"
    ELSE IF d.transfer = "status_not_success" THEN "Download failed"
    ELSE IF d.transfer = "read_fails" THEN "network error"
    ELSE IF HashChoice(d) = None THEN "No hash available for verification"
    ELSE LET expected == HashChoice(d)[1]
             alg == IF d.expected_sha256 # None THEN "sha256" ELSE "sha1"
         IN  IF DigestMatches(hex_encode(alg, d.body), expected) THEN "Ok"
             ELSE IF alg = "sha256" THEN "SHA256 verification failed" ELSE "SHA1 verification failed"

\* what a call leaves at the destination: the progress variant creates the
\* file and writes every chunk as it reads it, the other two write the body
\* once it is verified
DestinationAfter(d) ==
    IF ~ensure_https(d.url) \/ d.transfer \in {"send_fails", "status_not_success"}
    THEN destination
    ELSE IF d.fn = "download_with_sha256_progress"
    THEN (IF d.transfer = "read_fails"
          THEN Some(SubSeq(d.body, 1, Len(d.body) - 1))
          ELSE Some(d.body))
    ELSE IF DownloadResult(d) = "Ok" THEN Some(d.body)
    ELSE destination

download ==
    /\ dres = "-"
    /\ dres' = DownloadResult(dl)
    /\ sent' = ensure_https(dl.url)
    /\ destination' = DestinationAfter(dl)
    /\ UNCHANGED dl

\* ======================= server.properties and the settings =======================
\* The file is a sequence of characters.  A key, a word of a value and a
\* word of other text count as one character each; "=", "#", " " and the
\* line terminators "\n" and "\r" are themselves.  The six keys of
\* apply_settings_to_properties are two here: "difficulty", whose value is a
\* string that is lower-cased, and "pvp", whose value is printed from a bool
\* and which no file of the model has at the start.  A string of the
\* settings is a sequence of such characters, and it may hold a line
\* terminator.
LineTexts == {<<"#", "difficulty", "=", "hard">>,
              <<"junk">>,
              <<"difficulty", "=", "hard">>,
              <<" ", "difficulty", " ", "=", " ", "hard">>,
              <<"motd", "=", "junk">>,
              <<"level-name", "=", "old">>}

\* the lines of a properties file
MaxLines == 2

RECURSIVE Join(_, _)
Join(lines, sep) ==
    IF lines = <<>> THEN <<>>
    ELSE IF Len(lines) = 1 THEN lines[1]
    ELSE lines[1] \o sep \o Join(Tail(lines), sep)

\* the files the model starts from: lines from LineTexts, ended by "\n" or by
\* "\r\n", the last line with or without its terminator
Contents0 ==
    {Join(ls, eol) \o (IF final /\ ls # <<>> THEN eol ELSE <<>>) :
        ls \in SeqsUpTo(LineTexts, MaxLines), eol \in {<<"\n">>, <<"\r", "\n">>},
        final \in BOOLEAN}

SettingsValues == [difficulty : {<<"EASY">>, <<"ea", "\n", "sy">>}, pvp : {FALSE}]

VARIABLES
    props,     \* server.properties: None if there is no file, else Some of its content
    saved,     \* the settings file: None, or Some of the ServerSettings saved last
    pl         \* the function or command just run, the map of its updates, its result

pvars == <<props, saved, pl>>

PropsInit ==
    /\ props \in {None} \cup {Some(c) : c \in Contents0}
    /\ saved = None
    /\ pl = [op |-> "init", updates |-> [k \in {} |-> <<>>], res |-> "-"]

\* str::lines: split at "\n", a "\r" before the "\n" goes with it; no line
\* after a final "\n"
RECURSIVE SplitLines(_, _)
SplitLines(content, line) ==
    IF content = <<>> THEN (IF line = <<>> THEN <<>> ELSE <<line>>)
    ELSE IF Head(content) = "\n"
    THEN <<(IF line # <<>> /\ line[Len(line)] = "\r"
            THEN SubSeq(line, 1, Len(line) - 1) ELSE line)>>
         \o SplitLines(Tail(content), <<>>)
    ELSE SplitLines(Tail(content), Append(line, Head(content)))

lines(content) == SplitLines(content, <<>>)

\* str::trim: without the blanks at both ends
trim(s) ==
    LET solid == {i \in 1..Len(s) : s[i] \notin {" ", "\r"}}
    IN  IF solid = {} THEN <<>>
        ELSE SubSeq(s, CHOOSE i \in solid : \A j \in solid : i <= j,
                       CHOOSE i \in solid : \A j \in solid : i >= j)

\* the lines the loop pushes as they are: comments and lines without "="
IsKept(trimmed) ==
    \/ (trimmed # <<>> /\ Head(trimmed) \in {"#", "!"})
    \/ \A i \in 1..Len(trimmed) : trimmed[i] # "="

\* (variant: the key is taken as it stands before the "=")
KeyOf_untrimmed(trimmed) ==
    LET eq == CHOOSE i \in 1..Len(trimmed) :
                  trimmed[i] = "=" /\ \A j \in 1..(i - 1) : trimmed[j] # "="
    IN  SubSeq(trimmed, 1, eq - 1)

\* trimmed.splitn(2, '=').next().unwrap_or("").trim()
KeyOf(trimmed) ==
    LET eq == CHOOSE i \in 1..Len(trimmed) :
                  trimmed[i] = "=" /\ \A j \in 1..(i - 1) : trimmed[j] # "="
    IN  trim(SubSeq(trimmed, 1, eq - 1))

\* the key a line is replaced for, None if the line is pushed as it is
UpdatedKey(line, keys) ==
    LET trimmed == trim(line)
    IN  IF IsKept(trimmed) THEN None
        ELSE IF \E k \in keys : KeyOf(trimmed) = <<k>>
        THEN Some(KeyOf(trimmed)[1])
        ELSE None

\* format!("{}={}", key, value)
Format(key, value) == <<key, "=">> \o value

\* the loop over content.lines()
RewriteLines(ls, updates) ==
    [i \in 1..Len(ls) |->
        LET key == UpdatedKey(ls[i], DOMAIN updates)
        IN  IF key = None THEN ls[i] ELSE Format(key[1], updates[key[1]])]

\* the set `seen`: the keys the loop has replaced a line for
Seen(ls, keys) == {k \in keys : \E i \in 1..Len(ls) : UpdatedKey(ls[i], keys) = Some(k)}

\* the keys not seen, appended in the order the map gives them
RECURSIVE Appended(_, _, _)
Appended(order, seen, updates) ==
    IF order = <<>> THEN <<>>
    ELSE IF Head(order) \in seen THEN Appended(Tail(order), seen, updates)
    ELSE <<Format(Head(order), updates[Head(order)])>> \o Appended(Tail(order), seen, updates)

\* format!("{}\n", lines.join("\n"))
rewrite(content, updates, order) ==
    LET ls == lines(content)
        out == RewriteLines(ls, updates) \o Appended(order, Seen(ls, DOMAIN updates), updates)
    IN  Join(out, <<"\n">>) \o <<"\n">>

\* str::to_lowercase
str_to_lowercase(s) == [i \in 1..Len(s) |-> IF s[i] = "EASY" THEN "easy" ELSE s[i]]

\* bool::to_string
bool_to_string(b) == IF b THEN <<"true">> ELSE <<"false">>

\* the map `updates` of apply_settings_to_properties
Updates(settings) ==
    [k \in {"difficulty", "pvp"} |->
        IF k = "difficulty" THEN str_to_lowercase(settings.difficulty)
        ELSE bool_to_string(settings.pvp)]

\* the orders in which a HashMap can give its keys
Orders(keys) == {o \in SeqsUpTo(keys, Cardinality(keys)) :
                    Len(o) = Cardinality(keys) /\ \A k \in keys : \E i \in 1..Len(o) : o[i] = k}

\* the model follows a file while it has at most this many lines
Fits == IF props = None THEN TRUE ELSE Len(lines(props[1])) <= MaxLines + 2

\* apply_settings_to_properties: the file it leaves; it fails, and leaves
\* no file, where the file cannot be read
apply_settings_to_properties(settings, order) ==
    IF props = None THEN props
    ELSE Some(rewrite(props[1], Updates(settings), order))

\* apply_online_mode: nothing to do where there is no file
apply_online_mode(online_mode) ==
    /\ Fits
    /\ props' = IF props = None THEN props
                ELSE Some(rewrite(props[1],
                        [k \in {"online-mode"} |-> bool_to_string(online_mode)],
                        <<"online-mode">>))
    /\ pl' = [op |-> "apply_online_mode",
              updates |-> [k \in {"online-mode"} |-> bool_to_string(online_mode)],
              res |-> "Ok"]
    /\ UNCHANGED saved

\* set_level_name: a file that cannot be read counts as empty
set_level_name(level_name) ==
    /\ Fits
    /\ props' = Some(rewrite(IF props = None THEN <<>> ELSE props[1],
                        [k \in {"level-name"} |-> level_name], <<"level-name">>))
    /\ pl' = [op |-> "set_level_name", updates |-> [k \in {"level-name"} |-> level_name],
              res |-> "Ok"]
    /\ UNCHANGED saved

\* update_server_settings; running: what is_server_running answers
update_server_settings(settings, running, order) ==
    /\ Fits
    /\ saved' = Some(settings)
    /\ IF running
       THEN /\ props' = props
            /\ pl' = [op |-> "update_server_settings", updates |-> Updates(settings),
                      res |-> "pending_restart"]
       ELSE /\ props' = apply_settings_to_properties(settings, order)
            /\ pl' = [op |-> "update_server_settings", updates |-> Updates(settings),
                      res |-> IF props = None THEN "read error" ELSE "applied"]

\* apply_server_settings, once load_settings has a settings file to read: the
\* saved settings are applied in either case
apply_server_settings(running, order) ==
    /\ Fits
    /\ saved # None
    /\ props' = apply_settings_to_properties(saved[1], order)
    /\ pl' = [op |-> "apply_server_settings", updates |-> Updates(saved[1]),
              res |-> IF props = None THEN "read error"
                      ELSE IF running THEN "pending_restart" ELSE "applied"]
    /\ UNCHANGED saved

\* (variant: start_server spawns without applying the saved settings)
start_server_applies_late(order, outcome) ==
    /\ Fits
    /\ saved # None
    /\ props' = props
    /\ pl' = [op |-> "start_server", updates |-> Updates(saved[1]),
              res |-> IF props = None THEN "read error" ELSE outcome,
              pending |-> pl.res = "pending_restart"]
    /\ UNCHANGED saved

\* start_server on the settings: load_settings and
\* apply_settings_to_properties come before the mutex is taken, whatever
\* ProcessManager::start then does (outcome: "spawned", or "noop" for a
\* server that runs already); pending: the step before saved settings for
\* a running server and left server.properties alone
start_server_applies(order, outcome) ==
    /\ Fits
    /\ saved # None
    /\ props' = apply_settings_to_properties(saved[1], order)
    /\ pl' = [op |-> "start_server", updates |-> Updates(saved[1]),
              res |-> IF props = None THEN "read error" ELSE outcome,
              pending |-> pl.res = "pending_restart"]
    /\ UNCHANGED saved

\* ======================= sleeping players and the percentage =======================
\* The two conversions compute in f32.  An f32 value greater than zero is
\* the record [m, s] that stands for m / 2^s with 2^23 <= m < 2^24: the 24
\* bits of the significand, rounded to nearest, ties to even, after every
\* operation.  The numbers of the model stay below 2^31 for max_players up
\* to 127.
\* the player counts of the model
MaxPlayers == 105

\* max of two integers
Max(a, b) == IF a >= b THEN a ELSE b

\* a / b rounded to the nearest integer, ties to the even one
RoundDiv(a, b) ==
    LET q == a \div b
        r == a % b
    IN  IF 2 * r > b \/ (2 * r = b /\ q % 2 = 1) THEN q + 1 ELSE q

\* the least s with a * 2^s >= 2^23 * b
RECURSIVE Shift(_, _, _)
Shift(a, b, s) == IF a * 2^s >= 2^23 * b THEN s ELSE Shift(a, b, s + 1)

\* a significand that rounding has carried to 2^24 is 2^23 one exponent up
Normal(m, s) == IF m = 2^24 THEN [m |-> 2^23, s |-> s - 1] ELSE [m |-> m, s |-> s]

\* `a as f32 / b as f32` for integers a in 1..255, b in 1..127
F32Div(a, b) ==
    LET s == Shift(a, b, 0)
    IN  Normal(RoundDiv(a * 2^s, b), s)

\* the number of bits by which p exceeds 24 bits
RECURSIVE Excess(_, _)
Excess(p, k) == IF p \div 2^k < 2^24 THEN k ELSE Excess(p, k + 1)

\* `x * c as f32` for an f32 x and an integer c in 1..127
F32Mul(x, c) ==
    LET p == x.m * c
        k == Excess(p, 0)
    IN  Normal(RoundDiv(p, 2^k), x.s - k)

\* f32::ceil, as an integer
ceil(x) == (x.m + 2^x.s - 1) \div 2^x.s

\* f32::clamp on integral values; `as u8` is clamp(v, 0, 255): the cast
\* saturates
clamp(v, lo, hi) == IF v < lo THEN lo ELSE IF v > hi THEN hi ELSE v

sleepers_to_percentage(required, max_players) ==
    IF max_players = 0 THEN 100
    ELSE LET percent == ceil(F32Mul(F32Div(Max(required, 1), max_players), 100))
         IN  clamp(clamp(percent, 1, 100), 0, 255)

percentage_to_sleepers(percent, max_players) ==
    IF max_players = 0 THEN 1
    ELSE LET required == ceil(F32Mul(F32Div(Max(percent, 1), 100), max_players))
         IN  clamp(Max(required, 1), 0, 255)

VARIABLES
    sl         \* one call: the function, its arguments and, once it has run, its result

svars == <<sl>>

\* the arguments of the call: a u8 and a player count
SleepInit ==
    \E a \in 0..255, max_players \in 0..MaxPlayers :
        sl = [fn |-> "-", arg |-> a, max_players |-> max_players, out |-> 0]

\* apply_settings_to_properties computes the percentage it writes
call_sleepers_to_percentage ==
    /\ sl.fn = "-"
    /\ sl' = [sl EXCEPT !.fn = "sleepers_to_percentage",
                        !.out = sleepers_to_percentage(sl.arg, sl.max_players)]

\* load_settings computes the sleepers from the percentage it reads
call_percentage_to_sleepers ==
    /\ sl.fn = "-"
    /\ sl' = [sl EXCEPT !.fn = "percentage_to_sleepers",
                        !.out = percentage_to_sleepers(sl.arg, sl.max_players)]

\* apply_settings_to_properties writes the percentage of sl.arg sleepers, and
\* load_settings reads it back with the same max_players
write_then_load ==
    /\ sl.fn = "-"
    /\ sl' = [sl EXCEPT !.fn = "write_then_load",
                        !.out = percentage_to_sleepers(
                                    sleepers_to_percentage(sl.arg, sl.max_players),
                                    sl.max_players)]


\* ======================= server directories, mods and the Java runtime =======================
VARIABLES
    registry,       \* the ServerConfig of the server in servers.json, None when it has none:
                    \* [linked, server_dir]
    disk,           \* directory -> what it holds: "original" (as its owner left it),
                    \* "reinstalled" (fresh install around the kept world), "emptied"
                    \* (removed and created again, the install failed), "absent"
    mods,           \* file name in <server_dir>/mods -> what the file holds, "-" where there is none
    java_extract,   \* the staging directory <runtime parent>/java_extract exists
    runtime_dir,    \* what the runtime directory holds: "zip", "runtime", "absent"
    world_import,   \* the staging directories under <data_dir>/temp/world-import:
                    \* "validated" (made by validate_world_source), "created"
                    \* (made by the import itself)
    target,         \* <server_dir>/world of the server being created: "absent", "old",
                    \* "partial" (removed or copied in part), "imported"
    fl              \* the last call: [op, res, file, source]

fvars == <<registry, disk, mods, java_extract, runtime_dir, world_import, target, fl>>

\* delete_server past the manager: resolve_server_dir prefers the directory
\* under data_dir/servers; a linked directory is left alone
delete_server ==
    LET found == disk["managed"] # "absent" \/ registry # None
        server_dir == IF disk["managed"] # "absent" THEN "managed" ELSE registry[1].server_dir
        linked == registry # None /\ registry[1].linked
    IN  /\ IF found
           THEN /\ disk' = IF disk[server_dir] # "absent" /\ ~linked
                           THEN [disk EXCEPT ![server_dir] = "absent"] ELSE disk
                /\ registry' = None
                /\ fl' = [op |-> "delete_server", res |-> "Ok", file |-> "-", source |-> {}]
           ELSE /\ fl' = [op |-> "delete_server", res |-> "Server not found", file |-> "-", source |-> {}]
                /\ UNCHANGED <<registry, disk>>
        /\ UNCHANGED <<mods, java_extract, runtime_dir, world_import, target>>

\* reinstall_server past the manager: the world is moved aside, server_dir of
\* the config is removed, created again and installed into
reinstall_server(outcome) ==
    /\ IF registry = None
       THEN /\ fl' = [op |-> "reinstall_server", res |-> "Server not found", file |-> "-", source |-> {}]
            /\ UNCHANGED disk
       ELSE /\ disk' = [disk EXCEPT ![registry[1].server_dir] =
                            IF outcome = "ok" THEN "reinstalled" ELSE "emptied"]
            /\ fl' = [op |-> "reinstall_server",
                      res |-> IF outcome = "ok" THEN "Ok" ELSE "io error", file |-> "-", source |-> {}]
    /\ UNCHANGED <<registry, mods, java_extract, runtime_dir, world_import, target>>

\* (variant: a jar is copied over the file of its name)
import_mods_into_server_replacing(order) ==
    LET jars == {i \in 1..Len(order) : order[i] \in {"a.jar", "b.jar"}}
    IN  /\ mods' = [n \in DOMAIN mods |->
                       IF \E i \in jars : order[i] = n THEN "new" ELSE mods[n]]
        /\ fl' = [op |-> "import_mods_into_server",
                  res |-> IF jars = {} THEN "No .jar mods found in the selected source."
                          ELSE "Ok",
                  file |-> "-",
                  source |-> {order[i] : i \in 1..Len(order)}]
        /\ UNCHANGED <<registry, disk, java_extract, runtime_dir, world_import, target>>

\* import_mods_into_server: order is the source directory as read_dir gives
\* it; a jar whose name exists in the target ends the loop, the jars copied
\* before it stay
import_mods_into_server(order) ==
    LET jars == {i \in 1..Len(order) : order[i] \in {"a.jar", "b.jar"}}
        conflicts == {i \in jars : mods[order[i]] # "-"}
        stop == IF conflicts = {} THEN Len(order) + 1
                ELSE CHOOSE i \in conflicts : \A j \in conflicts : i <= j
    IN  /\ mods' = [n \in DOMAIN mods |->
                       IF \E i \in jars : i < stop /\ order[i] = n THEN "new" ELSE mods[n]]
        /\ fl' = [op |-> "import_mods_into_server",
                  res |-> IF jars = {} THEN "No .jar mods found in the selected source."
                          ELSE IF conflicts # {} THEN "Mod already exists in target folder"
                          ELSE "Ok",
                  file |-> IF conflicts # {} THEN order[stop] ELSE "-",
                  source |-> {order[i] : i \in 1..Len(order)}]
        /\ UNCHANGED <<registry, disk, java_extract, runtime_dir, world_import, target>>

\* download_java_runtime from the downloaded zip on: extract_java_zip, which
\* returns at the first step that fails
extract_java_zip(outcome) ==
    /\ java_extract' = IF outcome = "open_fails" THEN java_extract
                       ELSE IF outcome = "stale_staging_kept" THEN TRUE
                       ELSE outcome # "ok"
    /\ runtime_dir' = IF outcome = "ok" THEN "runtime"
                      ELSE IF outcome = "copy_fails" THEN "absent"
                      ELSE "zip"
    /\ fl' = [op |-> "extract_java_zip",
              res |-> IF outcome = "ok" THEN "Ok"
                      ELSE IF outcome = "no_folder" THEN "Extracted runtime folder not found"
                      ELSE "io error",
              file |-> "-", source |-> {}]
    /\ outcome = "stale_staging_kept" => java_extract
    /\ UNCHANGED <<registry, disk, mods, world_import, target>>

\* import_world_into_server, called by create_server: source is a folder, a
\* zip, a zip that validate_world_source staged before (staged_path), or of
\* another kind;
\* file of fl: the staging directory the call created
import_world_into_server(source, outcome) ==
    LET staged_root == IF source = "zip" THEN "created"
                       ELSE IF source = "staged_zip" THEN "validated" ELSE "-"
        res == IF source = "other" THEN "Invalid world source type"
               ELSE IF source = "staged_zip" /\ "validated" \notin world_import
               THEN "Staged world folder not found"
               ELSE IF outcome = "source_missing"
               THEN (IF source = "folder" THEN "World folder not found" ELSE "Zip file not found")
               ELSE IF outcome = "not_a_zip" THEN "Only .zip worlds are supported"
               ELSE IF outcome = "extract_fails" THEN "io error"
               ELSE IF outcome = "invalid_world" THEN "Invalid world folder"
               ELSE IF outcome \in {"remove_fails", "copy_fails", "properties_fails"} THEN "io error"
               ELSE "Ok"
        staged == source = "zip" /\ outcome \notin {"source_missing", "not_a_zip"}
    IN  /\ source = "other" => outcome = "ok"
        /\ source = "folder" => outcome \notin {"not_a_zip", "extract_fails", "cleanup_fails"}
        /\ source = "staged_zip" => outcome \notin {"source_missing", "not_a_zip", "extract_fails"}
        /\ outcome = "remove_fails" => target # "absent"
        /\ world_import' = IF res = "Ok" /\ outcome # "cleanup_fails"
                           THEN world_import \ {staged_root}
                           ELSE IF staged THEN world_import \cup {"created"}
                           ELSE world_import
        /\ target' = IF res = "Ok" \/ (res = "io error" /\ outcome = "properties_fails")
                     THEN "imported"
                     ELSE IF res = "io error" /\ outcome \in {"remove_fails", "copy_fails"}
                     THEN "partial"
                     ELSE target
        /\ fl' = [op |-> "import_world_into_server", res |-> res,
                  file |-> IF staged THEN "created" ELSE "-", source |-> {}]
        /\ UNCHANGED <<registry, disk, mods, java_extract, runtime_dir>>

\* ======================= the backup scheduler =======================
\* start_backup_scheduler runs on a thread of its own: every pass loads the
\* ServerMeta of the server, decides whether a backup is due and calls
\* perform_backup, while the commands create_backup, delete_backup and
\* update_server_meta run on the main thread.  Nothing locks meta.json or
\* manifest.json, so the reads and writes of a pass are steps of their own
\* here and a command runs between any two of them.
Metas == [auto_backup : BOOLEAN, backup_interval_minutes : {0, 1, 2}]

VARIABLES
    meta,    \* meta.json: auto_backup and backup_interval_minutes (its third
             \* field is last_backup_at)
    sched,   \* the scheduler thread: where it is, the id and size of the archive
             \* it made and the manifest it loaded
    hist     \* history: the ids of the backups that succeeded and were not
             \* deleted since, and the instant of the last success

zvars == <<meta, sched, hist>>

Asleep == [pc |-> "sleep", id |-> 0, size_bytes |-> 0, copy |-> <<>>]

\* due of start_backup_scheduler, from the meta it loaded.  Two instants of
\* Times are a pass of the scheduler apart: its sleep of 60 seconds and the
\* second the pass takes, 61 seconds
Due(m, last_backup) ==
    /\ m.auto_backup
    /\ m.backup_interval_minutes # 0
    /\ \/ last_backup = None
       \/ (clock - last_backup[1]) * 61 > 60 * m.backup_interval_minutes

\* a pass wakes up, loads the meta and decides
scheduler_pass ==
    /\ sched.pc = "sleep"
    /\ sched' = IF Due(meta, last_backup_at) THEN [Asleep EXCEPT !.pc = "due"] ELSE Asleep
    /\ bk' = [op |-> "scheduler", id |-> 0,
              res |-> IF Due(meta, last_backup_at) THEN "due" ELSE "not due",
              sent |-> <<>>, written |-> TRUE]
    /\ UNCHANGED <<world, archives, manifest, last_backup_at, clock, backups, taken, meta, hist>>

\* perform_backup(.., true, true, "scheduled") up to the archive: the
\* timestamp is taken and the world is zipped
scheduler_backup_starts(view, outcome) ==
    LET id == clock
        roots == collect_world_paths(TRUE)
        zipped == ZipResult(roots, outcome)
        res == IF view = "running_other" THEN ErrConflict ELSE zipped
    IN  /\ sched.pc = "due"
        /\ backups < MaxBackups
        /\ backups' = backups + 1
        /\ archives' = IF view = "running_other" THEN archives
                       ELSE ZipLeaves(id, roots, outcome)
        /\ sched' = IF res = "Ok"
                    THEN [pc |-> "zipped", id |-> id,
                          size_bytes |-> SumSizes(roots, world), copy |-> <<>>]
                    ELSE Asleep
        /\ bk' = [op |-> "scheduled", id |-> 0, res |-> res, sent |-> <<>>, written |-> TRUE]
        /\ UNCHANGED <<world, manifest, last_backup_at, clock, taken, meta, hist>>

\* load_backup_manifest of the scheduled backup
scheduler_loads_manifest ==
    /\ sched.pc = "zipped"
    /\ sched' = [sched EXCEPT !.pc = "loaded", !.copy = manifest]
    /\ bk' = [op |-> "scheduled", id |-> 0, res |-> "loaded", sent |-> <<>>, written |-> TRUE]
    /\ UNCHANGED <<world, archives, manifest, last_backup_at, clock, backups, taken, meta, hist>>

\* manifest.push, save_backup_manifest and the meta of the scheduled backup
scheduler_saves_manifest ==
    /\ sched.pc = "loaded"
    /\ manifest' = Append(sched.copy, BackupEntry(sched.id, sched.size_bytes))
    /\ last_backup_at' = Some(sched.id)
    /\ hist' = [made |-> hist.made \cup {sched.id}, last |-> Some(sched.id)]
    /\ sched' = Asleep
    /\ bk' = [op |-> "scheduled", id |-> 0, res |-> "Ok", sent |-> <<>>, written |-> TRUE]
    /\ UNCHANGED <<world, archives, clock, backups, taken, meta>>

\* the command create_backup, with the history of its result
create_backup(include_nether, view, outcome) ==
    /\ perform_backup(include_nether, view, outcome)
    /\ hist' = IF bk'.res = "Ok"
               THEN [made |-> hist.made \cup {clock}, last |-> Some(clock)]
               ELSE hist
    /\ UNCHANGED <<meta, sched>>

\* the command delete_backup, with the history of what it was asked to remove
delete_backup_command(id) ==
    /\ delete_backup(id)
    /\ hist' = [hist EXCEPT !.made = @ \ {id}]
    /\ UNCHANGED <<meta, sched>>

\* update_server_meta: the ServerMeta of the caller replaces the file
update_server_meta(m, last_backup) ==
    /\ meta' = m
    /\ last_backup_at' = last_backup
    /\ bk' = [op |-> "update_server_meta", id |-> 0, res |-> "Ok", sent |-> <<>>, written |-> TRUE]
    /\ UNCHANGED <<world, archives, manifest, clock, backups, taken, sched, hist>>

\* ======================= specifications =======================
\* Each specification runs one part of the program; the variables of the
\* other parts stay where they are parked.
AppInit(part) ==
    /\ ManagerInit
    /\ BackupInit
    /\ part \notin {"backup", "scheduler"} => world = [f \in Folders |-> "missing"]
    /\ IF part = "extract" THEN ExtractInit
       ELSE /\ archive = <<>>
            /\ extractor = "safe_extract_zip"
            /\ index = 1
            /\ created = {}
    /\ IF part = "download" THEN DownloadInit
       ELSE /\ dl = [fn |-> "download_with_sha256", url |-> "https://host/file",
                     expected_sha256 |-> Some(Hex("sha256", Published, "lower")),
                     expected_sha1 |-> None, transfer |-> "ok", body |-> Published]
            /\ sent = FALSE
            /\ destination = None
            /\ dres = "-"
    /\ IF part = "props" THEN PropsInit
       ELSE /\ props = None
            /\ saved = None
            /\ pl = [op |-> "init", updates |-> [k \in {} |-> <<>>], res |-> "-"]
    /\ IF part = "sleep" THEN SleepInit
       ELSE sl = [fn |-> "-", arg |-> 0, max_players |-> 0, out |-> 0]
    /\ IF part = "files"
       THEN \* one server, created by the application (create_server, linked: false)
            \* or linked by import_server; some mods installed; no staging directory
            /\ registry \in {Some([linked |-> TRUE, server_dir |-> "external"]),
                              Some([linked |-> FALSE, server_dir |-> "managed"])}
            /\ disk = [d \in {"external", "managed"} |->
                          IF d = registry[1].server_dir THEN "original" ELSE "absent"]
            /\ mods \in [{"a.jar", "b.jar", "notes.txt"} -> {"-", "old"}]
            /\ runtime_dir \in {"absent", "runtime"}
       ELSE /\ registry = None
            /\ disk = [d \in {"external", "managed"} |-> "absent"]
            /\ mods = [n \in {"a.jar", "b.jar", "notes.txt"} |-> "-"]
            /\ runtime_dir = "absent"
    /\ IF part = "import"
       THEN \* a zip that validate_world_source staged, or none; a retry of
            \* create_server finds the world of the earlier attempt
            /\ world_import \in {{}, {"validated"}}
            /\ target \in {"absent", "old"}
       ELSE /\ world_import = {}
            /\ target = "absent"
    /\ java_extract = FALSE
    /\ IF part = "scheduler" THEN meta \in Metas
       ELSE meta = [auto_backup |-> FALSE, backup_interval_minutes |-> 0]
    /\ sched = Asleep
    /\ hist = [made |-> {}, last |-> None]
    /\ fl = [op |-> "init", res |-> "-", file |-> "-", source |-> {}]

NotManager == <<bvars, xvars, dvars, pvars, svars, fvars, zvars>>
NotBackup == <<vars, xvars, dvars, pvars, svars, fvars, zvars>>
NotExtract == <<vars, bvars, dvars, pvars, svars, fvars, zvars>>
NotDownload == <<vars, bvars, xvars, pvars, svars, fvars, zvars>>
NotProps == <<vars, bvars, xvars, dvars, svars, fvars, zvars>>
NotSleep == <<vars, bvars, xvars, dvars, pvars, fvars, zvars>>

\* the application after setup: the ProcessManager as new() leaves it
Init == AppInit("manager")

Next ==
    \/ \E sid \in Servers, outcome \in StartOutcomes :
          start_server(sid, outcome) /\ UNCHANGED NotManager
    \/ \E t \in Threads, sid \in Servers : stop_server(t, sid) /\ UNCHANGED NotManager
    \/ \E t \in Threads, sid \in Servers : restart_server(t, sid) /\ UNCHANGED NotManager
    \/ \E t \in Threads, outcome \in StartOutcomes :
          restart_start(t, outcome) /\ UNCHANGED NotManager
    \/ \E t \in Threads : StopPoll(t) /\ UNCHANGED NotManager
    \/ \E t \in Threads, op \in GuardedOps, sid \in Servers :
          command_begin(t, op, sid) /\ UNCHANGED NotManager
    \/ \E t \in Threads : command_check(t) /\ UNCHANGED NotManager
    \/ \E t \in Threads, found \in BOOLEAN : restore_files(t, found) /\ UNCHANGED NotManager
    \/ \E sid \in Servers, written \in BOOLEAN :
          send_console_command(sid, written) /\ UNCHANGED NotManager
    \/ \E sid \in Servers, exists \in BOOLEAN :
          get_status(sid, exists) /\ UNCHANGED NotManager
    \/ exit_watcher /\ UNCHANGED NotManager
    \/ \E p \in Procs, label \in {"stdout", "stderr"} :
          spawn_output_thread(p, label) /\ UNCHANGED NotManager
    \/ \E p \in Procs : proc_ready(p) /\ UNCHANGED NotManager
    \/ \E p \in Procs, ok \in BOOLEAN : proc_exit(p, ok) /\ UNCHANGED NotManager
    \/ time_passes /\ UNCHANGED NotManager
    \/ stop_time_passes /\ UNCHANGED NotManager

Spec == Init /\ [][Next]_vars

\* the thread inside stop keeps running, so its loop makes its next
\* iteration, and time passes
FairSpec ==
    /\ Spec
    /\ \A t \in Threads : WF_vars(StopPoll(t) /\ UNCHANGED NotManager)
    /\ WF_vars(stop_time_passes /\ UNCHANGED NotManager)

\* the watcher thread wakes every second, and a thread inside stop keeps running
WatcherSpec ==
    /\ FairSpec
    /\ WF_vars(exit_watcher /\ UNCHANGED NotManager)

TypeOK ==
    /\ status \in ServerStatus
    /\ child \in {None} \cup {Some(p) : p \in Procs}
    /\ watchers \in 0..MaxWatchers

\* ---- the backup commands on the files of one server ----
BackupNext ==
    \/ \E include_nether \in BOOLEAN, view \in {"not_running", "running_own", "running_other"},
          outcome \in {"ok", "walk_fails", "write_fails", "manifest_load_fails",
                       "manifest_save_fails", "send_fails"} :
          perform_backup(include_nether, view, outcome) /\ UNCHANGED NotBackup
    \/ \E id \in Times, view \in {"not_running", "running_own", "running_other"},
          outcome \in {"ok", "extract_fails"} :
          restore_backup(id, view, outcome) /\ UNCHANGED NotBackup
    \/ \E id \in Times : delete_backup(id) /\ UNCHANGED NotBackup
    \/ \E f \in Folders : \E s \in FolderStates(f) : world_changes(f, s) /\ UNCHANGED NotBackup
    \/ clock_ticks /\ UNCHANGED NotBackup

BackupSpec == AppInit("backup") /\ [][BackupNext]_bvars

\* ---- the extraction loops ----
ExtractNext ==
    \/ extract_entry /\ UNCHANGED NotExtract

ExtractSpec == AppInit("extract") /\ [][ExtractNext]_xvars

\* ---- the downloads ----
DownloadNext ==
    \/ download /\ UNCHANGED NotDownload

DownloadSpec == AppInit("download") /\ [][DownloadNext]_dvars

\* ---- the rewriting of server.properties ----
PropsNext ==
    \/ \E settings \in SettingsValues, running \in BOOLEAN,
          order \in Orders({"difficulty", "pvp"}) :
          update_server_settings(settings, running, order) /\ UNCHANGED NotProps
    \/ \E running \in BOOLEAN, order \in Orders({"difficulty", "pvp"}) :
          apply_server_settings(running, order) /\ UNCHANGED NotProps
    \/ \E order \in Orders({"difficulty", "pvp"}), outcome \in {"spawned", "noop"} :
          start_server_applies(order, outcome) /\ UNCHANGED NotProps
    \/ \E online_mode \in BOOLEAN : apply_online_mode(online_mode) /\ UNCHANGED NotProps
    \/ \E level_name \in {<<"world">>} : set_level_name(level_name) /\ UNCHANGED NotProps

PropsSpec == AppInit("props") /\ [][PropsNext]_pvars

\* ---- the conversions between sleeping players and the percentage ----
SleepNext ==
    \/ call_sleepers_to_percentage /\ UNCHANGED NotSleep
    \/ call_percentage_to_sleepers /\ UNCHANGED NotSleep
    \/ write_then_load /\ UNCHANGED NotSleep

SleepSpec == AppInit("sleep") /\ [][SleepNext]_svars

\* ---- the commands on the server directory, the mods and the Java runtime ----
FilesNext ==
    \/ delete_server /\ UNCHANGED <<vars, bvars, xvars, dvars, pvars, svars, zvars>>
    \/ \E outcome \in {"ok", "install_fails"} :
          reinstall_server(outcome) /\ UNCHANGED <<vars, bvars, xvars, dvars, pvars, svars, zvars>>
    \/ \E source \in SUBSET {"a.jar", "b.jar", "notes.txt"} : \E order \in Orders(source) :
          import_mods_into_server(order) /\ UNCHANGED <<vars, bvars, xvars, dvars, pvars, svars, zvars>>
    \/ \E outcome \in {"ok", "open_fails", "stale_staging_kept", "entry_fails", "no_folder",
                        "remove_runtime_fails", "copy_fails"} :
          extract_java_zip(outcome) /\ UNCHANGED <<vars, bvars, xvars, dvars, pvars, svars, zvars>>

FilesSpec == AppInit("files") /\ [][FilesNext]_fvars

\* ---- the world import of create_server ----
ImportNext ==
    \E source \in {"folder", "zip", "staged_zip", "other"} :
    \E outcome \in {"ok", "source_missing", "not_a_zip", "extract_fails", "invalid_world", "remove_fails",
                     "copy_fails", "properties_fails", "cleanup_fails"} :
       import_world_into_server(source, outcome)
          /\ UNCHANGED <<vars, bvars, xvars, dvars, pvars, svars, zvars>>

ImportSpec == AppInit("import") /\ [][ImportNext]_fvars

\* ---- the backup scheduler beside the backup commands ----
SchedulerNext ==
    \/ scheduler_pass /\ UNCHANGED <<vars, xvars, dvars, pvars, svars, fvars>>
    \/ \E view \in {"stopped", "running_other"}, outcome \in {"ok", "write_fails"} :
          scheduler_backup_starts(view, outcome) /\ UNCHANGED <<vars, xvars, dvars, pvars, svars, fvars>>
    \/ scheduler_loads_manifest /\ UNCHANGED <<vars, xvars, dvars, pvars, svars, fvars>>
    \/ scheduler_saves_manifest /\ UNCHANGED <<vars, xvars, dvars, pvars, svars, fvars>>
    \/ \E view \in {"stopped", "running_other"}, outcome \in {"ok", "manifest_save_fails"} :
          create_backup(TRUE, view, outcome) /\ UNCHANGED <<vars, xvars, dvars, pvars, svars, fvars>>
    \/ \E id \in Times : delete_backup_command(id) /\ UNCHANGED <<vars, xvars, dvars, pvars, svars, fvars>>
    \/ \E m \in Metas, last_backup \in {None} \cup {Some(t) : t \in Times} :
          update_server_meta(m, last_backup) /\ UNCHANGED <<vars, xvars, dvars, pvars, svars, fvars>>
    \/ clock_ticks /\ UNCHANGED NotBackup

SchedulerSpec == AppInit("scheduler") /\ [][SchedulerNext]_<<bvars, zvars>>

\* ======================= properties =======================

\* another server than sid owns the slot and is starting or running
OtherServerRuns(sid) ==
    /\ status \in {"STARTING", "RUNNING"}
    /\ active_server_id # None
    /\ active_server_id[1] # sid

\* C1: in every reachable state, status RUNNING implies that a pid is
\* recorded, and status STOPPED implies that no pid is recorded.
C1_RunningHasPid ==
    /\ status = "RUNNING" => pid # None
    /\ status = "STOPPED" => pid = None

C1_Witness ==
    /\ last.op = "get_status"
    /\ last.res = "RUNNING"
    /\ status = "RUNNING"
    /\ pid # None

\* C2: the child handle and the pid are both present or both absent; a child
\* handle implies status STARTING or RUNNING, no child handle implies status
\* STOPPED or ERROR.
C2_HandleMatchesStatus ==
    /\ child = None <=> pid = None
    /\ child # None => status \in {"STARTING", "RUNNING"}
    /\ child = None => status \in {"STOPPED", "ERROR"}

C2_Witness ==
    /\ last.op = "exit_watcher"
    /\ child = None
    /\ pid = None
    /\ status = "ERROR"
    /\ \E p \in Procs : proc[p] = "gone"

\* C3: whenever a server id owns the slot the status is STARTING or RUNNING
\* (so in STOPPED and ERROR, also after a failed spawn, nobody owns the slot).
C3_OwnerImpliesStarted ==
    active_server_id # None => status \in {"STARTING", "RUNNING"}

\* C4: at most one process spawned by the manager is alive at any time.
C4_AtMostOneAlive ==
    Cardinality({p \in Procs : Alive(p)}) <= 1

C4_Witness ==
    /\ \E p \in Procs : proc[p] = "gone"
    /\ \E q \in Procs : Alive(q) /\ child = Some(q)

C6_StartNoop ==
    [][(last'.via = "start" /\ status \in {"STARTING", "RUNNING"})
        => /\ last'.res = "Ok"
           /\ proc' = proc
           /\ UNCHANGED <<status, pid, child, stdin, started_at, active_server_id>>]_vars

C6_Witness ==
    /\ last.op = "start_server"
    /\ last.via = "start"
    /\ last.res = "Ok"
    /\ status = "RUNNING"

\* C7: stop on a manager without a child returns Ok and leaves status STOPPED,
\* no handle, no pid and no owner; on a manager that is already in that state
\* it changes nothing, however often it is called.
C7_StopIdempotent ==
    [][(last'.via = "stop_no_child")
        => /\ last'.op = "stop_server" => last'.res = "Ok"
           /\ status' = "STOPPED"
           /\ child' = None
           /\ pid' = None
           /\ active_server_id' = None
           /\ (status = "STOPPED" /\ active_server_id = None) => UNCHANGED mgr]_vars

C7_Witness ==
    /\ last.op = "stop_server"
    /\ last.via = "stop_no_child"
    /\ last.res = "Ok"
    /\ status = "STOPPED"
    /\ \E p \in Procs : proc[p] = "gone"

\* C8: stop on a manager with a child terminates; when it returns, child,
\* stdin and pid are cleared, nobody owns the slot and the status is STOPPED,
\* after a graceful exit as after a kill; and the kill is issued only when
\* the process has not exited and more than 10 seconds have passed.
C8_StopTerminates ==
    /\ \A t \in Threads : (th[t].pc = "stop_loop") ~> (th[t].pc # "stop_loop")
    /\ [][(last'.via \in {"stop", "stop_kill"})
           => /\ child' = None
              /\ stdin' = None
              /\ pid' = None
              /\ active_server_id' = None
              /\ status' = "STOPPED"]_vars
    /\ [][(last'.via = "stop_kill")
           => /\ child # None
              /\ Alive(child[1])
              /\ stopElapsed = "gt_10s"]_vars
    /\ [][(last'.via = "stop") => (child # None /\ Exited(child[1]))]_vars

C8_Witness ==
    /\ last.via = "stop_kill"
    /\ last.res = "Ok"
    /\ status = "STOPPED"
    /\ child = None

\* C9: send_console_command on a manager with no stdin returns
\* 'Server is not running' and changes nothing in the manager.
C9_SendNotRunning ==
    [][(last'.op = "send_console_command" /\ stdin = None)
        => /\ last'.res = ErrNotRunning
           /\ UNCHANGED mgr]_vars

C9_Witness ==
    /\ last.op = "send_console_command"
    /\ last.via = "send_command"
    /\ last.res = ErrNotRunning
    /\ stdin = None
    /\ \E p \in Procs : proc[p] = "gone"

\* C10: stop_server, restart_server, create_backup, restore_backup,
\* export_world and delete_server for X, while another server Y is STARTING
\* or RUNNING, return the conflict error and leave the manager and the
\* process of Y as they were: the commands that first look at
\* is_server_running go on to the ownership check, and the ownership check
\* fails.
C10_CommandsConflict ==
    [][\A t \in Threads :
        /\ (th[t].pc = "idle" /\ last'.op \in {"stop_server", "restart_server"}
              /\ OtherServerRuns(last'.sid))
            => (last'.res = ErrConflict /\ proc' = proc /\ UNCHANGED mgr)
        /\ (th[t].pc = "idle" /\ last'.op \in GuardedOps /\ OtherServerRuns(last'.sid))
            => (th'[t].pc = "check" /\ proc' = proc /\ UNCHANGED mgr)
        /\ (th[t].pc = "check" /\ last'.op \in GuardedOps /\ OtherServerRuns(last'.sid))
            => (last'.res = ErrConflict /\ proc' = proc /\ UNCHANGED mgr)]_vars

C10_Witness ==
    /\ last.op = "restore_backup"
    /\ last.res = ErrConflict
    /\ OtherServerRuns(last.sid)
    /\ child # None /\ Alive(child[1])

\* C11: get_status for server X while another server Y owns the slot fails
\* with the conflict error.
C11_StatusConflict ==
    [][(last'.op = "get_status" /\ active_server_id # None
          /\ active_server_id[1] # last'.sid)
        => last'.res = ErrConflict]_vars


C13_RestoreRoundTrip ==
    (bk.op = "restore_backup" /\ bk.res = "Ok" /\ taken # None /\ taken[1].id = bk.id)
        => \A f \in Folders :
              taken[1].files[f] # "?" => (IF world[f] \in Contents THEN world[f] ELSE "-") = taken[1].files[f]

\* C14: no extraction creates a file outside the root it extracts into: an
\* entry whose name leaves the root is skipped by safe_extract_zip, by
\* extract_java_zip and by the loop of restore_backup.
C14_NothingOutsideRoot ==
    \A file \in created : ~file.out

\* C15: a download returns Ok only if the digest of the bytes received is the
\* expected digest, whatever the case of its letters; for a body that was
\* received whole and is not the published one it returns the verification
\* error; and for a url that is not https it returns the https error with no
\* request sent and no file written.
C15_VerifiedDownload ==
    /\ dres = "Ok"
          => \E alg \in {"sha256", "sha1"}, c \in {"lower", "upper", "mixed"} :
                /\ Some(Hex(alg, dl.body, c)) \in {dl.expected_sha256, dl.expected_sha1}
                /\ alg = "sha1" => dl.expected_sha256 = None
    /\ (dres # "-" /\ dl.url = "https://host/file" /\ dl.transfer = "ok"
          /\ dl.body # Published /\ <<dl.expected_sha256, dl.expected_sha1>> # <<None, None>>)
          => dres \in {"SHA256 verification failed", "SHA1 verification failed"}
    /\ (dres # "-" /\ dl.url # "https://host/file")
          => (dres = "Only HTTPS downloads are allowed" /\ ~sent /\ destination = None)

C15_Witness ==
    /\ dres = "SHA256 verification failed"
    /\ dl.fn = "download_with_sha256_progress"
    /\ dl.expected_sha256 = Some(Hex("sha256", Published, "upper"))
    /\ dl.body = <<0, 0>>
    /\ destination = Some(<<0, 0>>)

\* C16: applying the settings that were applied just before leaves
\* server.properties byte for byte as the first application left it.
\* HasApplied: the step has run apply_settings_to_properties to its end.
C16_ApplyIdempotent ==
    [][LET HasApplied(step) ==
               \/ step.op = "apply_server_settings"
                  /\ step.res \in {"applied", "pending_restart"}
               \/ step.op = "update_server_settings" /\ step.res = "applied"
       IN  (HasApplied(pl) /\ HasApplied(pl') /\ pl'.updates = pl.updates)
           => props' = props]_pvars

\* C17: a rewriting of server.properties leaves every line that is a comment,
\* has no "=" or has a key that is not updated where and as it was, puts
\* "key=value" in the place of every line with an updated key, and appends
\* one "key=value" line, after the lines the file had, for every updated key
\* that no line had.  KeyRead is the key of a line, read off the line without
\* its blanks: "-" for a comment and for a line that does not start with a
\* key and "=".
C17_RewriteFrame ==
    [][(props # None /\ pl'.op \in {"apply_server_settings", "update_server_settings",
                                      "apply_online_mode", "set_level_name"}
          /\ pl'.res \in {"Ok", "applied"} \cup
                (IF pl'.op = "apply_server_settings" THEN {"pending_restart"} ELSE {}))
        => LET KeyRead(line) ==
                   LET s == SelectSeq(line, LAMBDA c : c \notin {" ", "\r"})
                   IN  IF Len(s) >= 2 /\ s[1] \notin {"#", "!", "="} /\ s[2] = "="
                       THEN s[1] ELSE "-"
               before == lines(props[1])
               keys == DOMAIN pl'.updates
               original == [i \in 1..Len(before) |->
                              IF KeyRead(before[i]) \in keys
                              THEN <<KeyRead(before[i]), "=">> \o pl'.updates[KeyRead(before[i])]
                              ELSE before[i]]
               absent == {k \in keys : \A i \in 1..Len(before) : KeyRead(before[i]) # k}
           IN  \E order \in Orders(absent) :
                  props' = Some(Join(original \o
                                     [i \in 1..Len(order) |->
                                        <<order[i], "=">> \o pl'.updates[order[i]]],
                                     <<"\n">>) \o <<"\n">>)]_pvars

C17_Witness ==
    /\ pl.op = "set_level_name"
    /\ props = Some(<<"level-name", "=", "world", "\n", "junk", "\n">>)

\* C18: update_server_settings while the server is starting or running
\* returns applied=false and pending_restart=true, and server.properties
\* holds the new settings when it returns.
C18_PendingIsWritten ==
    [][(pl'.op = "update_server_settings" /\ pl'.res = "pending_restart" /\ props # None)
        => /\ props' # None
           /\ \A k \in DOMAIN pl'.updates :
                 \E i \in 1..Len(lines(props'[1])) :
                    lines(props'[1])[i] = <<k, "=">> \o pl'.updates[k]]_pvars

\* C19: writing the percentage of n sleepers and reading it back with the same
\* max_players >= 1 gives, for 1 <= n <= max_players, a number that differs
\* from n by at most 1.
C19_RoundTripWithinOne ==
    (sl.fn = "write_then_load" /\ sl.max_players >= 1
        /\ 1 <= sl.arg /\ sl.arg <= sl.max_players)
    => sl.out - sl.arg \in -1..1

\* C20: for max_players >= 1, sleepers_to_percentage is
\* ceil(required / max_players * 100) clamped to [1, 100] and
\* percentage_to_sleepers is ceil(percent / 100 * max_players) clamped to
\* [1, max_players].
C20_ConversionsAsStated ==
    LET up(a, b) == (a + b - 1) \div b
    IN  /\ (sl.fn = "sleepers_to_percentage" /\ sl.max_players >= 1)
           => sl.out = clamp(up(sl.arg * 100, sl.max_players), 1, 100)
        /\ (sl.fn = "percentage_to_sleepers" /\ sl.max_players >= 1)
           => sl.out = clamp(up(sl.arg * sl.max_players, 100), 1, sl.max_players)


\* C21: import_mods_into_server leaves every file that exists in the target
\* mods directory as it is; when a jar of the source has the name of a file
\* of the target, the call fails with the conflict error, which names a jar
\* of the source that exists in the target.
C21_ModsNeverOverwritten ==
    [][fl'.op = "import_mods_into_server" =>
        /\ \A n \in DOMAIN mods : mods[n] # "-" => mods'[n] = mods[n]
        /\ (\E n \in fl'.source \cap {"a.jar", "b.jar"} : mods[n] # "-")
              => /\ fl'.res = "Mod already exists in target folder"
                 /\ fl'.file \in fl'.source \cap {"a.jar", "b.jar"}
                 /\ mods[fl'.file] # "-"]_fvars

C21_Witness ==
    /\ fl.op = "import_mods_into_server"
    /\ fl.res = "Mod already exists in target folder"
    /\ fl.file = "b.jar"
    /\ mods["b.jar"] = "old"
    /\ mods["a.jar"] = "new"

\* C22: delete_server and reinstall_server on a server whose config has
\* linked = true leave the directory the config points to, and what it
\* holds, as they were.
C22_LinkedDirectoryKept ==
    [][(/\ fl'.op \in {"delete_server", "reinstall_server"}
        /\ registry # None
        /\ registry[1].linked)
        => disk'[registry[1].server_dir] = disk[registry[1].server_dir]]_fvars

\* C23: restore_backup removes and writes the world folders of a server only
\* while that server has no live process: the server it stopped is still
\* stopped when the folders are removed and the archive is extracted,
\* whatever start_server calls other threads make in between.
C23_RestoreWhileStopped ==
    [][(last'.via = "files" /\ last'.res = "Ok")
        => ~(/\ active_server_id = Some(last'.sid)
             /\ child # None
             /\ Alive(child[1])
             /\ status \in {"STARTING", "RUNNING"})]_vars

\* C24: a backup that sent save-off has sent save-on after it when it returns,
\* whether the archive was written or not; and commands that do not reach
\* the process do not make the backup fail.
C24_SaveOnAfterSaveOff ==
    bk.op = "create_backup" =>
        /\ (\E i \in 1..Len(bk.sent) : bk.sent[i] = "save-off")
              => bk.sent[Len(bk.sent)] = "save-on"
        /\ (bk.sent # <<>> /\ ~bk.written)
              => bk.res \in {"Ok", "World folder not found"}

\* C25: a status query for a server that is STARTING, whose process is alive
\* and was started more than 8 seconds ago, sets the status to RUNNING and
\* answers RUNNING, with or without a ready line.
C25_ElapsedFallback ==
    [][(/\ last'.op = "get_status"
        /\ status = "STARTING"
        /\ started_at = Some("over_8s")
        /\ pid # None
        /\ Alive(pid[1])
        /\ active_server_id = Some(last'.sid))
        => (status' = "RUNNING" /\ last'.res = "RUNNING")]_vars

C25_Witness ==
    /\ last.op = "get_status"
    /\ last.via = "elapsed"
    /\ last.res = "RUNNING"
    /\ status = "RUNNING"
    /\ child # None
    /\ Alive(child[1])
    /\ ~ready[child[1]]

\* C26: a stdout line with the ready marker sets the status to RUNNING and
\* emits server:ready exactly when the status is STARTING; in STOPPED, ERROR
\* and RUNNING it changes nothing in the manager, and a stderr line with the
\* marker never changes anything in the manager.
C26_ReadyOnlyFromStarting ==
    [][/\ last'.op = "stdout" =>
            IF status = "STARTING"
            THEN /\ status' = "RUNNING"
                 /\ last'.via = "server:ready"
                 /\ UNCHANGED <<child, stdin, pid, started_at, active_server_id>>
            ELSE /\ UNCHANGED mgr
                 /\ last'.via = "-"
       /\ last'.op = "stderr" => (UNCHANGED mgr /\ last'.via = "-")]_vars

C26_Witness ==
    /\ last.op = "stdout"
    /\ last.via = "server:ready"
    /\ status = "RUNNING"
    /\ child # None

\* C27: once the bound child has exited, the handle, stdin, pid and owner are
\* eventually cleared; the watcher that sees the exit clears them, sets
\* STOPPED after a successful exit and ERROR after any other, emits the
\* event that matches, and ends.
C27_WatcherHandlesExit ==
    /\ (child # None /\ Exited(child[1]))
          ~> (child = None /\ stdin = None /\ pid = None /\ active_server_id = None)
    /\ [][(last'.op = "exit_watcher" /\ child # None /\ Exited(child[1]))
           => /\ child' = None
              /\ stdin' = None
              /\ pid' = None
              /\ active_server_id' = None
              /\ status' = IF proc[child[1]] = "exited_ok" THEN "STOPPED" ELSE "ERROR"
              /\ last'.via = IF proc[child[1]] = "exited_ok" THEN "server:stopped"
                             ELSE "server:error"
              /\ watchers' = watchers - 1]_vars

C27_Witness ==
    /\ last.op = "exit_watcher"
    /\ last.via = "server:stopped"
    /\ status = "STOPPED"
    /\ child = None
    /\ pid = None
    /\ active_server_id = None
    /\ watchers = 0

\* C28: at most one exit watcher polls the current child, after any sequence
\* of start_server, stop_server and restart_server calls.
C28_OneWatcherPerChild ==
    child # None => watchers <= 1

\* C29: get_status leaves status, pid, child, started_at and
\* active_server_id as they were.
C29_StatusIsPureRead ==
    [][last'.op = "get_status" => UNCHANGED mgr]_vars

\* C30: when extract_java_zip has returned, with Ok or with an error, there
\* is no java_extract staging directory.
C30_NoStagingLeft ==
    fl.op = "extract_java_zip" => ~java_extract


\* C31: when import_world_into_server has returned, with Ok or with an
\* error, the staging directory it created under temp/world-import is gone.
C31_NoWorldStagingLeft ==
    (fl.op = "import_world_into_server" /\ fl.file = "created")
        => "created" \notin world_import

\* C32: every termination notification (server:stopped of stop,
\* server:stopped or server:error of a watcher) is for the bound child, whose
\* handle is dropped in the same step and never comes back: no process gets
\* a second notification, whoever sees its exit first.
C32_OneNotificationPerChild ==
    /\ [][(last'.via \in {"stop", "stop_kill", "server:stopped", "server:error"})
           => /\ child # None
              /\ proc[child[1]] # "gone"
              /\ proc'[child[1]] = "gone"
              /\ child' = None]_vars
    /\ [][\A p \in Procs : proc[p] = "gone" => proc'[p] = "gone"]_vars

C32_Witness ==
    /\ last.via = "stop"
    /\ last.op = "stop_server"
    /\ child = None
    /\ watchers = MaxWatchers
    /\ \E p \in Procs : proc[p] = "gone"

\* C33: a ready line promotes STARTING to RUNNING only when it was printed
\* by the process that is bound as child.
C33_ReadyLineOfBoundChild ==
    [][(last'.op = "stdout" /\ status = "STARTING" /\ status' = "RUNNING")
        => \E p \in Procs : ready[p] /\ ~ready'[p] /\ child = Some(p)]_vars

\* C34: a restore_backup call that returns 'Backup not found' has left the
\* process state as it was: it has not been through stop.
C34_NotFoundLeavesProcess ==
    [][\A t \in Threads :
          (th[t].pc = "files_stopped" /\ th'[t].pc = "idle")
              => last'.res # "Backup not found"]_vars

\* C35: a restore_backup whose archive is missing or is not a zip archive
\* returns an error and leaves the world folders as they were.
C35_FoldersKeptWithoutArchive ==
    [][(/\ bk'.op = "restore_backup"
        /\ FindEntry(bk'.id) # None
        /\ archives[FindEntry(bk'.id)[1].path].kind # "zip")
        => (bk'.res \notin {"Ok"} /\ world' = world)]_bvars

C35_Witness ==
    /\ bk.op = "restore_backup"
    /\ bk.res = "io error"
    /\ FindEntry(bk.id) # None
    /\ archives[FindEntry(bk.id)[1].path].kind = "broken"
    /\ world["world"] # "missing"

\* C36: when start_server or restart_server spawns a process,
\* server.properties holds, for every key of the settings, a line that
\* starts with the key, "=" and the value of the settings saved last, also
\* where they were saved while the server was running and not applied then.
C36_SavedSettingsAtSpawn ==
    [][(pl'.op = "start_server" /\ pl'.res = "spawned")
        => /\ props' # None
           /\ \A k \in DOMAIN Updates(saved[1]) :
                 LET text == Format(k, Updates(saved[1])[k]) \o <<"\n">>
                     file == props'[1]
                 IN  \E i \in 1..Len(file) :
                        /\ i + Len(text) - 1 <= Len(file)
                        /\ SubSeq(file, i, i + Len(text) - 1) = text
                        /\ (i = 1 \/ file[i - 1] = "\n")]_pvars

C36_Witness ==
    /\ pl.op = "start_server"
    /\ pl.res = "spawned"
    /\ pl.pending
    /\ saved # None
    /\ saved[1].difficulty = <<"EASY">>
    /\ props # None
    /\ \E i \in 1..Len(lines(props[1])) : lines(props[1])[i] = <<"difficulty", "=", "easy">>

\* C37: the entry of every backup that succeeded is in the manifest until
\* delete_backup is called with its id, also while a scheduled backup and
\* the commands create_backup and delete_backup run side by side.
C37_EntriesStay == \A id \in hist.made : FindEntry(id) # None

\* C38: the entries of the manifest have pairwise distinct ids and pairwise
\* distinct archive paths.
C38_DistinctBackupIds ==
    \A i, j \in 1..Len(manifest) :
        i # j => (manifest[i].id # manifest[j].id /\ manifest[i].path # manifest[j].path)

\* C39: an import_mods_into_server call that fails with the conflict error
\* leaves the target mods directory as it was.
C39_ConflictLeavesTarget ==
    [][(fl'.op = "import_mods_into_server"
        /\ fl'.res = "Mod already exists in target folder")
        => mods' = mods]_fvars

\* C40: the scheduler starts to write an archive only while auto_backup is set and
\* backup_interval_minutes is not 0, and only when no backup has succeeded
\* yet or more than backup_interval_minutes have passed since the last one
\* that did, whatever create_backup and update_server_meta do in between.
C40_ScheduledOnlyWhenDue ==
    [][(sched.pc = "due" /\ sched'.pc = "zipped")
        => /\ meta.auto_backup
           /\ meta.backup_interval_minutes # 0
           /\ \/ hist.last = None
              \/ (clock - hist.last[1]) * 61 > 60 * meta.backup_interval_minutes]_<<bvars, zvars>>

====
